---- MODULE Spec2Model ----
(***************************************************************************)
(* A model of the two deterministic data transformations of Ovis-vllm:     *)
(*   - OvisProcessor.preprocess_image / construct_image_placeholders       *)
(*     (src/ovis/vllm/processing_ovis.py): adaptive tiling of an image,    *)
(*     the tile stack, and the placeholder token skeleton of a grid;       *)
(*   - Ovis.merge_multimodal (src/ovis/model/modeling_ovis.py): splicing   *)
(*     visual embedding groups into text at sentinel positions, then       *)
(*     padding and truncating the batch.                                   *)
(*                                                                         *)
(* Python floats are modelled as IEEE 754 doubles, rounded after every     *)
(* operation as the interpreter rounds them.  Tensors are modelled by      *)
(* sequences; an embedding vector is an abstract value naming the table    *)
(* and the index it was looked up from.                                    *)
(***************************************************************************)
EXTENDS Integers, Sequences, FiniteSets, TLC

VARIABLES
    call,                \* the entry point this behaviour runs
    pc,                  \* position inside the running entry point
    \* ---- OvisProcessor.preprocess_image / construct_image_placeholders
    img,                 \* image.size = <<w, h>>
    sides,               \* get_image_size() = <<height, width>>
    max_partition,       \* images_kwargs: tile budget
    covering_threshold,  \* images_kwargs: threshold, a fraction <<p, q>>
    candidate_grids,     \* _get_best_grid: candidate_grids
    cand,                \* _get_best_grid: loop variable `grid` of line 303
    all_grids,           \* _get_best_grid: all_grids, pairs <<grid, covering_ratio>>
    good_grids,          \* _get_best_grid: good_grids
    partition,           \* the last value returned by _partition
    grid,                \* the grid _get_best_grid returned
    crops,               \* preprocess_image: crops
    pixel_values,        \* preprocess_image: the tile stack
    image_placeholders,  \* construct_image_placeholders: the list being built
    ph_r,                \* construct_image_placeholders: loop variable r
    ph_c,                \* construct_image_placeholders: loop variable c
    \* ---- Ovis.merge_multimodal
    training,            \* self.training
    text_input_ids,      \* one sequence of token ids per sample
    text_attention_masks,\* one sequence of booleans per sample
    text_labels,         \* one sequence of labels per sample, or None
    sample_pixel_values, \* per sample: None, or a tensor of x.shape[0] images
    visual_tokens_len,   \* tokens the visual tokenizer returns per image
    multimodal_max_length, \* self.config.multimodal_max_length
    visual_embeds,       \* per sample: None, or one embedding group per image
    visual_labels,       \* per sample: None, or one label group per image
    input_embeds,        \* the merged embeddings of the samples done so far
    attention_masks,     \* their merged attention masks
    labels,              \* their merged labels
    batch_input_embeds,  \* the three tensors returned
    batch_attention_mask,
    batch_labels,
    \* ---- OvisProcessor.__call__
    images,              \* argument images: None, one image or a list of images
    text,                \* argument text: None, one string or a list of strings
    tokenized_batched_text, \* what tokenizer.batch_encode_plus returned
    image_features,      \* the dict image_features
    processed_images,    \* the tile stack of each image processed so far
    image_placeholders_list, \* its placeholder ids
    grids,               \* its grid
    idx,                 \* index of the next image whose placeholder is used
    replaced_ids_list,   \* the ids of the samples done so far
    replaced_attn_mask_list, \* their attention masks
    output               \* the BatchFeature returned

tilingVars == <<img, sides, max_partition, covering_threshold, candidate_grids,
                cand, all_grids, good_grids, partition, crops, pixel_values>>
placeholderVars == <<grid, image_placeholders, ph_r, ph_c>>
mergeInputs == <<training, text_input_ids, text_attention_masks,
                 sample_pixel_values, visual_tokens_len, multimodal_max_length>>
mergeVars == <<mergeInputs, text_labels, visual_embeds, visual_labels,
               input_embeds, attention_masks, labels, batch_input_embeds,
               batch_attention_mask, batch_labels>>
callInputs == <<images, text>>
callVars == <<callInputs, tokenized_batched_text, image_features,
              processed_images, image_placeholders_list, grids, idx,
              replaced_ids_list, replaced_attn_mask_list, output>>
vars == <<call, pc, tilingVars, placeholderVars, mergeVars, callVars>>

----------------------------------------------------------------------------
(* Bounds of the model.                                                    *)

MaxW == 5
MaxH == 5
MaxSide == 3
MaxPartition == 5
MaxRows == 4
MaxCols == 4
MaxText == 3
MaxImages == 2
MaxVisualTokens == 2
MaxLength == 4
MaxBatch == 2
MaxBatchText == 2

\* The inputs of the calls in which candidate grids tie: small images, and a
\* budget that admits the grids (2, 3) and (3, 2).
MaxTieW == 3
MaxTieSide == 2
MaxTiePartition == 6
TieThresholds == {<<2, 5>>, <<1, 1>>}

\* The calls of the processor: how many images and texts, how many tokens
\* per text, and the sizes of the images (a 2 x 2 image gets the grid
\* (1, 1), a 4 x 2 image the grid (1, 2), with tiles of side 2).
MaxCallImages == 2
MaxCallTexts == 2
MaxCallText == 2
ImageSizes == {<<2, 2>>, <<4, 2>>}
CallSides == <<2, 2>>

\* The crops and tile sides _preprocess is applied to on its own.
MaxCropW == 22
MaxCropH == 22
MaxCropSide == 22

\* Thresholds in (0, 1], as fractions <<p, q>>; 9/10 is the default.
Thresholds == { <<1, 2>>, <<9, 10>>, <<1, 1>> }

\* The scenario of the specification: image 800x400, S = 384,
\* max_partition = 9, threshold 0.9.
Scenario == [img |-> <<800, 400>>, side |-> 384, max_partition |-> 9,
             threshold |-> <<9, 10>>]

\* Python's None, and a tensor or list with no element at all.
None == <<>>

----------------------------------------------------------------------------
(* Natural numbers of any size, as the sequence of their digits in base    *)
(* 2^15, least significant first, with no leading zero digit (zero is the  *)
(* empty sequence).  They carry the 53-bit significands of Python floats,  *)
(* which do not fit TLC's integers.                                        *)

Max(a, b) == IF a >= b THEN a ELSE b
Min(a, b) == IF a <= b THEN a ELSE b

RECURSIVE SumInts(_)
SumInts(s) == IF s = <<>> THEN 0 ELSE Head(s) + SumInts(Tail(s))

LimbBits == 15
Base == 2 ^ LimbBits

RECURSIVE BigNorm(_)
BigNorm(a) ==
    IF a = <<>> THEN <<>>
    ELSE IF a[Len(a)] = 0 THEN BigNorm(SubSeq(a, 1, Len(a) - 1))
    ELSE a

RECURSIVE BigFromInt(_)
BigFromInt(n) == IF n = 0 THEN <<>> ELSE <<n % Base>> \o BigFromInt(n \div Base)

\* a * k + carry, for 0 <= k < Base and 0 <= carry < Base.
RECURSIVE BigMulCarry(_, _, _)
BigMulCarry(a, k, carry) ==
    IF a = <<>> THEN BigFromInt(carry)
    ELSE LET t == Head(a) * k + carry
         IN  <<t % Base>> \o BigMulCarry(Tail(a), k, t \div Base)

BigMulSmall(a, k) == BigNorm(BigMulCarry(a, k, 0))

\* Long division by 0 < d < Base, from the most significant digit down:
\* [q |-> the digits of the quotient, r |-> the remainder].
RECURSIVE BigDivRem(_, _)
BigDivRem(a, d) ==
    IF a = <<>> THEN [q |-> <<>>, r |-> 0]
    ELSE LET hi == BigDivRem(Tail(a), d)
             t == hi.r * Base + Head(a)
         IN  [q |-> <<t \div d>> \o hi.q, r |-> t % d]

BigDivSmall(a, d) ==
    LET x == BigDivRem(a, d) IN [q |-> BigNorm(x.q), r |-> x.r]

RECURSIVE BigAddCarry(_, _, _)
BigAddCarry(a, b, carry) ==
    IF a = <<>> /\ b = <<>> THEN BigFromInt(carry)
    ELSE LET x == IF a = <<>> THEN 0 ELSE Head(a)
             y == IF b = <<>> THEN 0 ELSE Head(b)
             t == x + y + carry
         IN  <<t % Base>> \o BigAddCarry(IF a = <<>> THEN <<>> ELSE Tail(a),
                                         IF b = <<>> THEN <<>> ELSE Tail(b),
                                         t \div Base)

BigAdd(a, b) == BigNorm(BigAddCarry(a, b, 0))

\* a < b, both without leading zero digits.
RECURSIVE BigLess(_, _)
BigLess(a, b) ==
    IF Len(a) # Len(b) THEN Len(a) < Len(b)
    ELSE IF a = <<>> THEN FALSE
    ELSE IF a[Len(a)] # b[Len(b)] THEN a[Len(a)] < b[Len(b)]
    ELSE BigLess(SubSeq(a, 1, Len(a) - 1), SubSeq(b, 1, Len(b) - 1))

RECURSIVE IntBitLen(_)
IntBitLen(n) == IF n = 0 THEN 0 ELSE 1 + IntBitLen(n \div 2)

BigBitLen(a) ==
    IF a = <<>> THEN 0 ELSE LimbBits * (Len(a) - 1) + IntBitLen(a[Len(a)])

\* a * 2^n.
BigShl(a, n) ==
    IF a = <<>> THEN <<>>
    ELSE [i \in 1..(n \div LimbBits) |-> 0] \o BigMulSmall(a, 2 ^ (n % LimbBits))

\* a \div 2^n, and whether a nonzero bit was dropped.
BigShr(a, n) ==
    LET k == Min(n \div LimbBits, Len(a))
        low == SubSeq(a, 1, k)
        x == BigDivSmall(SubSeq(a, k + 1, Len(a)), 2 ^ (n % LimbBits))
    IN  [q |-> x.q, sticky |-> x.r # 0 \/ \E i \in 1..k : low[i] # 0]

BigOdd(a) == a # <<>> /\ a[1] % 2 = 1

----------------------------------------------------------------------------
(* Python floats: IEEE 754 binary64, round to nearest, ties to even.  A    *)
(* value >= 0 is [m, e], standing for m * 2^e with 2^52 <= m < 2^53, or    *)
(* FloatZero; one value has one representation.  The magnitudes of this    *)
(* program (areas of images, ratios of them) stay far from overflow and    *)
(* from subnormals, which are not modelled.                                *)

FloatZero == [m |-> <<>>, e |-> 0]

\* The float nearest to x * 2^e, where x = m when ~sticky and m < x < m + 1
\* when sticky; a sticky m must come with more than 54 bits.
FloatRound(m, e, sticky) ==
    LET len == BigBitLen(m)
    IN  IF len = 0 THEN FloatZero
        ELSE IF len <= 53 THEN [m |-> BigShl(m, 53 - len), e |-> e - (53 - len)]
        ELSE LET d == len - 53
                 s == BigShr(m, d - 1)
                 q == BigDivSmall(s.q, 2).q
                 up == BigOdd(s.q) /\ (s.sticky \/ sticky \/ BigOdd(q))
                 r == IF up THEN BigAdd(q, <<1>>) ELSE q
             IN  IF BigBitLen(r) > 53
                 THEN [m |-> BigDivSmall(r, 2).q, e |-> e + d + 1]
                 ELSE [m |-> r, e |-> e + d]

\* float(n) for an integer 0 <= n < 2^31: exact.
FloatFromInt(n) == FloatRound(BigFromInt(n), 0, FALSE)

\* x / d for an integer 0 < d < 2^15 (int / int is x = float(n)).
FloatDivInt(x, d) ==
    IF x = FloatZero THEN FloatZero
    ELSE LET n == BigShl(x.m, 2 * LimbBits)
             y == BigDivSmall(n, d)
         IN  FloatRound(y.q, x.e - 2 * LimbBits, y.r # 0)

\* x / (d1 * d2) for integers 0 < d1, d2 < 2^15: the floor of a quotient by
\* d1 * d2 is the floor by d2 of the floor by d1, and the division is
\* exact iff both are.
FloatDivProduct(x, d1, d2) ==
    IF x = FloatZero THEN FloatZero
    ELSE LET n == BigShl(x.m, 3 * LimbBits)
             y1 == BigDivSmall(n, d1)
             y2 == BigDivSmall(y1.q, d2)
         IN  FloatRound(y2.q, x.e - 3 * LimbBits, y1.r # 0 \/ y2.r # 0)

\* x * k for an integer 0 <= k < 2^15.
FloatMulInt(x, k) ==
    IF x = FloatZero THEN FloatZero
    ELSE FloatRound(BigMulSmall(x.m, k), x.e, FALSE)

FloatAdd(x, y) ==
    IF x = FloatZero THEN y
    ELSE IF y = FloatZero THEN x
    ELSE LET e == Min(x.e, y.e)
         IN  FloatRound(BigAdd(BigShl(x.m, x.e - e), BigShl(y.m, y.e - e)), e, FALSE)

RECURSIVE BigToInt(_)
BigToInt(a) == IF a = <<>> THEN 0 ELSE Head(a) + Base * BigToInt(Tail(a))

\* int(x): the integer part of a float below 2^31.
FloatToInt(x) ==
    IF x = FloatZero THEN 0
    ELSE IF x.e >= 0 THEN BigToInt(BigShl(x.m, x.e))
    ELSE BigToInt(BigShr(x.m, -x.e).q)

FloatLess(x, y) ==
    IF y = FloatZero THEN FALSE
    ELSE IF x = FloatZero THEN TRUE
    ELSE IF x.e # y.e THEN x.e < y.e
    ELSE BigLess(x.m, y.m)

FloatLeq(x, y) == ~FloatLess(y, x)

\* sum(s): 0 + s[1] + s[2] + ..., left to right.
RECURSIVE FloatSum(_)
FloatSum(s) == IF s = <<>> THEN FloatZero
               ELSE FloatAdd(FloatSum(SubSeq(s, 1, Len(s) - 1)), s[Len(s)])

----------------------------------------------------------------------------
(* preprocess_image: the nested helpers.                                   *)

PartitionNoRemainder(size, g) ==
    LET row_height == size[2] \div g[1]
        col_width == size[1] \div g[2]
    IN  [k \in 1..(g[1] * g[2]) |->
            LET row == (k - 1) \div g[2]
                col == (k - 1) % g[2]
            IN  <<col * col_width, row * row_height,
                  (col + 1) * col_width, (row + 1) * row_height>>]

\* _partition(img, grid): the rectangles <<left, upper, right, lower>> in
\* the order the nested loops append them (row by row).
Partition(size, g) ==
    LET w == size[1]
        h == size[2]
        row_height == h \div g[1]
        col_width == w \div g[2]
    IN  [k \in 1..(g[1] * g[2]) |->
            LET row == (k - 1) \div g[2]
                col == (k - 1) % g[2]
                left == col * col_width
                upper == row * row_height
                right == IF col = g[2] - 1 THEN w ELSE (col + 1) * col_width
                lower == IF row = g[1] - 1 THEN h ELSE (row + 1) * row_height
            IN  <<left, upper, right, lower>>]

CoveringAreaNoDivision(p, side) ==
    LET w0 == p[3] - p[1]
        h0 == p[4] - p[2]
        w == Max(w0, h0)
        h == Min(w0, h0)
    IN  IF w > side
        THEN FloatMulInt(FloatMulInt(FloatFromInt(h), side), side)
        ELSE FloatFromInt(w * h)

\* _covering_area(left, upper, right, lower, side); p is the rectangle.
\* The area is an int when the rectangle fits the tile (an int is added to
\* a float sum as the float of the same value), and side * (h / w * side),
\* rounded after each operation, when it does not.
CoveringArea(p, side) ==
    LET w0 == p[3] - p[1]
        h0 == p[4] - p[2]
        w == Max(w0, h0)
        h == Min(w0, h0)
    IN  IF w > side
        THEN FloatMulInt(FloatMulInt(FloatDivInt(FloatFromInt(h), w), side), side)
        ELSE FloatFromInt(w * h)

\* Line 305: sum([_covering_area(*p, side) for p in partition]) / img_area,
\* img_area being w * h.
CoveringRatio(part, side, size) ==
    FloatDivProduct(FloatSum([k \in 1..Len(part) |-> CoveringArea(part[k], side)]),
                    size[1], size[2])

\* The float of the literal p/q, as Python reads a decimal literal: the
\* float nearest to its value.
ThresholdFloat(threshold) == FloatDivInt(FloatFromInt(threshold[1]), threshold[2])

\* Line 306: covering_ratio <= 1.0
RatioAtMostOne(covering_ratio) == FloatLeq(covering_ratio, FloatFromInt(1))

\* Line 308: covering_ratio > covering_threshold
RatioAbove(covering_ratio, threshold) ==
    FloatLess(ThresholdFloat(threshold), covering_ratio)

\* The loops of lines 295-299: i ascending, then j ascending.
RECURSIVE CandidateRow(_, _, _)
CandidateRow(i, j, n) ==
    IF j > n THEN <<>>
    ELSE (IF i * j <= n THEN << <<i, j>> >> ELSE <<>>) \o CandidateRow(i, j + 1, n)

RECURSIVE CandidatesFrom(_, _)
CandidatesFrom(i, n) ==
    IF i > n THEN <<>> ELSE CandidateRow(i, 1, n) \o CandidatesFrom(i + 1, n)

CandidateGridsNoBudget(n) ==
    CandidatesFrom(1, n + 1)

CandidateGrids(n) == CandidatesFrom(1, n)

GridSize(g) == g[1] * g[2]

\* The sort keys of lines 313 and 316, compared as Python compares tuples.
\* An entry is <<grid, covering_ratio>>.
GoodKeyLess(a, b) ==
    \/ GridSize(a[1]) < GridSize(b[1])
    \/ GridSize(a[1]) = GridSize(b[1]) /\ FloatLess(b[2], a[2])

AllKeyLess(a, b) ==
    \/ FloatLess(b[2], a[2])
    \/ a[2] = b[2] /\ GridSize(a[1]) < GridSize(b[1])

KeyLess(key, a, b) == IF key = "good" THEN GoodKeyLess(a, b) ELSE AllKeyLess(a, b)

RECURSIVE SortedInsertBeforeEqual(_, _, _)
SortedInsertBeforeEqual(x, s, key) ==
    IF s = <<>> THEN <<x>>
    ELSE IF ~KeyLess(key, Head(s), x) THEN <<x>> \o s
    ELSE <<Head(s)>> \o SortedInsertBeforeEqual(x, Tail(s), key)

\* sorted(s, key=...): a stable sort.
RECURSIVE SortedInsert(_, _, _)
SortedInsert(x, s, key) ==
    IF s = <<>> THEN <<x>>
    ELSE IF KeyLess(key, x, Head(s)) THEN <<x>> \o s
    ELSE <<Head(s)>> \o SortedInsert(x, Tail(s), key)

RECURSIVE Sorted(_, _)
Sorted(s, key) ==
    IF s = <<>> THEN <<>>
    ELSE SortedInsert(s[Len(s)], Sorted(SubSeq(s, 1, Len(s) - 1), key), key)

BestGridSwappedKeys(good, all) ==
    IF Len(good) > 0 THEN Sorted(good, "all")[1][1]
    ELSE Sorted(all, "good")[1][1]

\* Lines 311-316: the grid returned.
BestGrid(good, all) ==
    IF Len(good) > 0 THEN Sorted(good, "good")[1][1]
    ELSE Sorted(all, "all")[1][1]

\* image.crop(p), and the image itself.
Crop(p) == [kind |-> "crop", box |-> p]
WholeImage(size) == [kind |-> "image", box |-> <<0, 0, size[1], size[2]>>]

CropsAlwaysOverview(size, part) ==
    <<WholeImage(size)>> \o [k \in 1..Len(part) |-> Crop(part[k])]

\* Lines 328-330: the crops, the image itself first when there are several.
Crops(size, part) ==
    LET cs == [k \in 1..Len(part) |-> Crop(part[k])]
    IN  IF Len(cs) > 1 THEN <<WholeImage(size)>> \o cs ELSE cs

\* Lines 246 and 249: int(a / b * side), in floats.
ScaledSide(a, b, side) ==
    FloatToInt(FloatMulInt(FloatDivInt(FloatFromInt(a), b), side))

\* Lines 241-250: new_size, as <<new_width, new_height>>.
NewSize(w, h, side) ==
    IF w = h THEN <<side, side>>
    ELSE IF w > h THEN <<side, ScaledSide(h, w, side)>>
    ELSE <<ScaledSide(w, h, side), side>>

\* Lines 259 and 262: (side - length) // 2
FromIndex(side, length) == (side - length) \div 2

\* _preprocess(crop, side): one side x side tile made from the crop.  The
\* image processor returns pixel values of the size asked for (line 251);
\* paste is the region <<left, upper, right, lower>> of the zero canvas
\* they are written to (lines 254-263).
Preprocess(crop, side) ==
    LET w == crop.box[3] - crop.box[1]
        h == crop.box[4] - crop.box[2]
        new_size == NewSize(w, h, side)
        new_width == new_size[1]
        new_height == new_size[2]
    IN  [src |-> crop,
         new_size |-> new_size,
         paste |->
             IF new_height = new_width THEN <<0, 0, side, side>>
             ELSE IF new_height > new_width
             THEN <<FromIndex(side, new_width), 0,
                    FromIndex(side, new_width) + new_width, side>>
             ELSE <<0, FromIndex(side, new_height),
                    side, FromIndex(side, new_height) + new_height>>,
         shape |-> <<side, side>>]

\* get_token_value(tok): the id of a structural token, named by its key.
TokenValue(tok) == tok

----------------------------------------------------------------------------
(* OvisProcessor.preprocess_image as a state machine.                      *)

IdleMerge ==
    /\ training = FALSE
    /\ text_input_ids = <<>>
    /\ text_attention_masks = <<>>
    /\ text_labels = None
    /\ sample_pixel_values = <<>>
    /\ visual_tokens_len = 0
    /\ multimodal_max_length = 0
    /\ visual_embeds = <<>>
    /\ visual_labels = <<>>
    /\ input_embeds = <<>>
    /\ attention_masks = <<>>
    /\ labels = <<>>
    /\ batch_input_embeds = None
    /\ batch_attention_mask = None
    /\ batch_labels = None

IdleCall ==
    /\ images = None
    /\ text = None
    /\ tokenized_batched_text = None
    /\ image_features = None
    /\ processed_images = <<>>
    /\ image_placeholders_list = <<>>
    /\ grids = <<>>
    /\ idx = 0
    /\ replaced_ids_list = <<>>
    /\ replaced_attn_mask_list = <<>>
    /\ output = None

IdlePlaceholder ==
    /\ grid = None
    /\ image_placeholders = <<>>
    /\ ph_r = 0
    /\ ph_c = 0

IdleTiling ==
    /\ img = None
    /\ sides = None
    /\ max_partition = 0
    /\ covering_threshold = None
    /\ candidate_grids = <<>>
    /\ cand = None
    /\ all_grids = <<>>
    /\ good_grids = <<>>
    /\ partition = <<>>
    /\ crops = <<>>
    /\ pixel_values = <<>>

StartTiling(size, sd, n, t) ==
    /\ call = "preprocess_image"
    /\ pc = "preprocess_image"
    /\ img = size
    /\ sides = sd
    /\ max_partition = n
    /\ covering_threshold = t
    /\ candidate_grids = <<>>
    /\ cand = None
    /\ all_grids = <<>>
    /\ good_grids = <<>>
    /\ partition = <<>>
    /\ crops = <<>>
    /\ pixel_values = <<>>
    /\ IdlePlaceholder
    /\ IdleMerge
    /\ IdleCall

InitTiling ==
    \E w \in 1..MaxW, h \in 1..MaxH, sh \in 1..MaxSide, sw \in 1..MaxSide,
       n \in 1..MaxPartition, t \in Thresholds :
        StartTiling(<<w, h>>, <<sh, sw>>, n, t)

InitTies ==
    \E w \in 1..MaxTieW, h \in 1..MaxTieW, sh \in 1..MaxTieSide,
       sw \in 1..MaxTieSide, n \in 1..MaxTiePartition, t \in TieThresholds :
        StartTiling(<<w, h>>, <<sh, sw>>, n, t)

InitScenario ==
    StartTiling(Scenario.img, <<Scenario.side, Scenario.side>>,
                Scenario.max_partition, Scenario.threshold)

\* Lines 322-324: a non-square tile size is refused.
RaiseNonSquare ==
    /\ pc = "preprocess_image"
    /\ sides[1] # sides[2]
    /\ pc' = "ValueError"
    /\ UNCHANGED <<call, tilingVars, placeholderVars, mergeVars, callVars>>

\* Lines 325-326, 293-302: _get_best_grid is entered, the candidates are
\* enumerated.
EnumerateCandidates ==
    /\ pc = "preprocess_image"
    /\ sides[1] = sides[2]
    /\ candidate_grids' = CandidateGrids(max_partition)
    /\ pc' = "_get_best_grid"
    /\ UNCHANGED <<call, img, sides, max_partition, covering_threshold, cand,
                   all_grids, good_grids, partition, crops, pixel_values,
                   placeholderVars, mergeVars, callVars>>

\* Lines 303-309: one iteration of the loop over the candidates.
EvalGrid ==
    /\ pc = "_get_best_grid"
    /\ Len(all_grids) < Len(candidate_grids)
    /\ LET g == candidate_grids[Len(all_grids) + 1]
           part == Partition(img, g)
           covering_ratio == CoveringRatio(part, sides[1], img)
       IN  /\ cand' = g
           /\ partition' = part
           /\ IF RatioAtMostOne(covering_ratio)
              THEN /\ all_grids' = Append(all_grids, <<g, covering_ratio>>)
                   /\ good_grids' =
                          IF RatioAbove(covering_ratio, covering_threshold)
                          THEN Append(good_grids, <<g, covering_ratio>>)
                          ELSE good_grids
                   /\ pc' = pc
              ELSE /\ pc' = "AssertionError"
                   /\ UNCHANGED <<all_grids, good_grids>>
    /\ UNCHANGED <<call, img, sides, max_partition, covering_threshold,
                   candidate_grids, crops, pixel_values, placeholderVars, mergeVars, callVars>>

\* Lines 311-316: the loop is over, the best grid is returned.
PickGrid ==
    /\ pc = "_get_best_grid"
    /\ Len(all_grids) = Len(candidate_grids)
    /\ grid' = BestGrid(good_grids, all_grids)
    /\ pc' = "crop"
    /\ UNCHANGED <<call, tilingVars, image_placeholders, ph_r, ph_c, mergeVars, callVars>>

\* Lines 327-331: the chosen grid is cut, the tiles are made.
CropTiles ==
    /\ pc = "crop"
    /\ LET part == Partition(img, grid)
           cs == Crops(img, part)
       IN  /\ partition' = part
           /\ crops' = cs
           /\ pixel_values' = [k \in 1..Len(cs) |-> Preprocess(cs[k], sides[1])]
    /\ pc' = "construct_image_placeholders"
    /\ UNCHANGED <<call, img, sides, max_partition, covering_threshold,
                   candidate_grids, cand, all_grids, good_grids,
                   placeholderVars, mergeVars, callVars>>

----------------------------------------------------------------------------
(* OvisProcessor.construct_image_placeholders as a state machine.          *)

InitPlaceholder ==
    /\ call = "construct_image_placeholders"
    /\ pc = "construct_image_placeholders"
    /\ grid \in (1..MaxRows) \X (1..MaxCols)
    /\ image_placeholders = <<>>
    /\ ph_r = 0
    /\ ph_c = 0
    /\ IdleTiling
    /\ IdleMerge
    /\ IdleCall

\* Lines 224-226.
PlaceholderHead ==
    <<TokenValue("image_start"), TokenValue("image_atom"),
      TokenValue("image_prefix")>>

\* Lines 224-227: the three leading tokens; the loops are entered only for
\* a grid of more than one tile.
PlaceholderStart ==
    /\ pc = "construct_image_placeholders"
    /\ image_placeholders' = PlaceholderHead
    /\ ph_r' = 0
    /\ ph_c' = 0
    /\ pc' = IF grid[1] * grid[2] > 1 THEN "placeholder_loop" ELSE "placeholder_end"
    /\ UNCHANGED <<call, tilingVars, grid, mergeVars, callVars>>

AtomTokensSepAfterLast(r, c, g) ==
    <<TokenValue("image_atom"), TokenValue("image_col_sep")>>
    \o (IF c = g[2] - 1 /\ r < g[1] - 1
        THEN <<TokenValue("image_row_sep")>> ELSE <<>>)

\* Lines 230-234: what one iteration of the inner loop appends; on the last
\* column of a row, the row separator of line 234 follows.
AtomTokens(r, c, g) ==
    <<TokenValue("image_atom")>>
    \o (IF c < g[2] - 1 THEN <<TokenValue("image_col_sep")>> ELSE <<>>)
    \o (IF c = g[2] - 1 /\ r < g[1] - 1
        THEN <<TokenValue("image_row_sep")>> ELSE <<>>)

\* Lines 228-234: one iteration of the inner loop (and, after the last
\* column, the end of the outer loop's iteration).
PlaceholderAtom ==
    /\ pc = "placeholder_loop"
    /\ image_placeholders' = image_placeholders \o AtomTokens(ph_r, ph_c, grid)
    /\ IF ph_c < grid[2] - 1
       THEN /\ ph_c' = ph_c + 1
            /\ ph_r' = ph_r
            /\ pc' = pc
       ELSE /\ ph_c' = 0
            /\ ph_r' = ph_r + 1
            /\ pc' = IF ph_r < grid[1] - 1 THEN pc ELSE "placeholder_end"
    /\ UNCHANGED <<call, tilingVars, grid, mergeVars, callVars>>

\* Lines 235-236 (and 333 when called by preprocess_image).
PlaceholderEnd ==
    /\ pc = "placeholder_end"
    /\ image_placeholders' = Append(image_placeholders, TokenValue("image_end"))
    /\ pc' = "returned"
    /\ UNCHANGED <<call, tilingVars, grid, ph_r, ph_c, mergeVars, callVars>>

NextPlaceholder == PlaceholderStart \/ PlaceholderAtom \/ PlaceholderEnd

NextTiling ==
    \/ RaiseNonSquare
    \/ EnumerateCandidates
    \/ EvalGrid
    \/ PickGrid
    \/ CropTiles
    \/ NextPlaceholder

SpecTiling == InitTiling /\ [][NextTiling]_vars

SpecScenario == (InitTiling \/ InitScenario) /\ [][NextTiling]_vars

\* _preprocess applied to one crop on its own.
InitPreprocess ==
    \E w \in 1..MaxCropW, h \in 1..MaxCropH, side \in 1..MaxCropSide :
        /\ call = "_preprocess"
        /\ pc = "_preprocess"
        /\ img = <<w, h>>
        /\ sides = <<side, side>>
        /\ max_partition = 0
        /\ covering_threshold = None
        /\ candidate_grids = <<>>
        /\ cand = None
        /\ all_grids = <<>>
        /\ good_grids = <<>>
        /\ partition = <<>>
        /\ crops = <<WholeImage(<<w, h>>)>>
        /\ pixel_values = <<>>
        /\ IdlePlaceholder
        /\ IdleMerge
        /\ IdleCall

\* Lines 239-265.
PreprocessCrop ==
    /\ pc = "_preprocess"
    /\ pixel_values' = <<Preprocess(crops[1], sides[1])>>
    /\ pc' = "returned"
    /\ UNCHANGED <<call, img, sides, max_partition, covering_threshold,
                   candidate_grids, cand, all_grids, good_grids, partition,
                   crops, placeholderVars, mergeVars, callVars>>

SpecPreprocess == InitPreprocess /\ [][PreprocessCrop]_vars

SpecTies == InitTies /\ [][NextTiling]_vars

SpecPlaceholder == InitPlaceholder /\ [][NextPlaceholder]_vars

----------------------------------------------------------------------------
(* Ovis.merge_multimodal: values and helpers.                              *)

\* The two reserved ids imported on line 16 (ovis.util.constants): the label
\* the loss ignores and the sentinel id marking an image in the text.
IGNORE_INDEX == -100
IMAGE_TOKEN_INDEX == -200

\* self.get_wte()(ids): the text embedding of each id.
Wte(ids) == [i \in 1..Len(ids) |-> <<"wte", ids[i]>>]

\* torch.masked_fill(text_input_id, image_token_mask, 0)
MaskedFill(ids) ==
    [i \in 1..Len(ids) |-> IF ids[i] = IMAGE_TOKEN_INDEX THEN 0 ELSE ids[i]]

\* torch.where(image_token_mask)[0].tolist(): the sentinel positions,
\* ascending (1-based here).
RECURSIVE PositionsFrom(_, _)
PositionsFrom(ids, i) ==
    IF i > Len(ids) THEN <<>>
    ELSE (IF ids[i] = IMAGE_TOKEN_INDEX THEN <<i>> ELSE <<>>)
         \o PositionsFrom(ids, i + 1)

ImageTokenPositions(ids) == PositionsFrom(ids, 1)

\* x.shape[0] if x is not None else 0
NumImages(x) == IF x = None THEN 0 ELSE Len(x)

\* sum(num_images) > 0
AnyImage(pixels) ==
    SumInts([b \in 1..Len(pixels) |-> NumImages(pixels[b])]) > 0

\* A pixel tensor holding k images.
PixelTensor(k) == [g \in 1..k |-> "image"]

\* Lines 158-160 and 169-171: the embeddings of the visual tokens of sample
\* b, split per sample: one group of n vectors per image.
VisualEmbed(b, num_images, n) ==
    [g \in 1..num_images |-> [j \in 1..n |-> <<"vte", b, g, j>>]]

VisualLabelZero(visual_embed) ==
    [g \in 1..Len(visual_embed) |-> [j \in 1..Len(visual_embed[g]) |-> 0]]

\* Lines 163 and 174: torch.full(x.shape, IGNORE_INDEX).
VisualLabel(visual_embed) ==
    [g \in 1..Len(visual_embed) |->
        [j \in 1..Len(visual_embed[g]) |-> IGNORE_INDEX]]

ZerosLike(x) == [j \in 1..Len(x) |-> FALSE]

\* torch.ones_like(visual_label[index], dtype=torch.bool)
OnesLike(x) == [j \in 1..Len(x) |-> TRUE]

RECURSIVE MergePartsKeepSentinel(_, _, _, _, _)
MergePartsKeepSentinel(txt, visual, positions, index, prev) ==
    IF index > Len(positions)
    THEN IF prev + 1 <= Len(txt) THEN SubSeq(txt, prev + 1, Len(txt)) ELSE <<>>
    ELSE SubSeq(txt, prev + 1, positions[index])
         \o visual[index]
         \o MergePartsKeepSentinel(txt, visual, positions, index + 1, positions[index])

RECURSIVE MergePartsFirstGroup(_, _, _, _, _)
MergePartsFirstGroup(txt, visual, positions, index, prev) ==
    IF index > Len(positions)
    THEN IF prev + 1 <= Len(txt) THEN SubSeq(txt, prev + 1, Len(txt)) ELSE <<>>
    ELSE SubSeq(txt, prev + 1, positions[index] - 1)
         \o visual[1]
         \o MergePartsFirstGroup(txt, visual, positions, index + 1, positions[index])

\* Lines 197-219, for one of the three sequences: the parts appended from
\* the index-th sentinel on, concatenated.  prev is the position of the
\* previous sentinel (0 before the first); text[prev + 1 : position] of the
\* code is SubSeq(txt, prev + 1, position - 1) with 1-based positions.
RECURSIVE MergeParts(_, _, _, _, _)
MergeParts(txt, visual, positions, index, prev) ==
    IF index > Len(positions)
    THEN IF prev + 1 <= Len(txt) THEN SubSeq(txt, prev + 1, Len(txt)) ELSE <<>>
    ELSE SubSeq(txt, prev + 1, positions[index] - 1)
         \o visual[index]
         \o MergeParts(txt, visual, positions, index + 1, positions[index])

\* torch.sum(visual_embed * 0.0): every row of the visual embedding table
\* is a vector of finite numbers, its product with 0.0 is zero, and the sum
\* of zeros (of none, for a tensor of no image) is zero.
ZeroSum(visual_embed) ==
    IF \A g \in 1..Len(visual_embed) :
           \A j \in 1..Len(visual_embed[g]) : visual_embed[g][j][1] = "vte"
    THEN "0.0" ELSE "nan"

AddScalarUnscaled(embed, scalar) ==
    [i \in 1..Len(embed) |-> <<"sum", embed[i][2]>>]

\* input_embed += scalar: adding zero leaves every vector as it is.
AddScalar(embed, scalar) ==
    [i \in 1..Len(embed) |-> IF scalar = "0.0" THEN embed[i] ELSE <<"nan">>]

RECURSIVE MaxLen(_)
MaxLen(seqs) ==
    IF seqs = <<>> THEN 0 ELSE Max(Len(Head(seqs)), MaxLen(Tail(seqs)))

\* torch.nn.utils.rnn.pad_sequence(seqs, batch_first=True, padding_value)
PadSequence(seqs, padding_value) ==
    LET n == MaxLen(seqs)
    IN  [b \in 1..Len(seqs) |->
            seqs[b] \o [j \in 1..(n - Len(seqs[b])) |-> padding_value]]

TruncateOffByOne(rows, max_length) ==
    [b \in 1..Len(rows) |-> SubSeq(rows[b], 1, Min(Len(rows[b]), max_length + 1))]

\* rows[:, :max_length]
Truncate(rows, max_length) ==
    [b \in 1..Len(rows) |-> SubSeq(rows[b], 1, Min(Len(rows[b]), max_length))]

ZeroVector == <<"zero">>

----------------------------------------------------------------------------
(* Ovis.merge_multimodal as a state machine.                               *)

StartMerge(tr, ids, masks, labs, pixels, n, max_length) ==
    /\ call = "merge_multimodal"
    /\ pc = "merge_multimodal"
    /\ training = tr
    /\ text_input_ids = ids
    /\ text_attention_masks = masks
    /\ text_labels = labs
    /\ sample_pixel_values = pixels
    /\ visual_tokens_len = n
    /\ multimodal_max_length = max_length
    /\ visual_embeds = <<>>
    /\ visual_labels = <<>>
    /\ input_embeds = <<>>
    /\ attention_masks = <<>>
    /\ labels = <<>>
    /\ batch_input_embeds = None
    /\ batch_attention_mask = None
    /\ batch_labels = None
    /\ IdleTiling
    /\ IdlePlaceholder
    /\ IdleCall

\* The token ids of a text of t tokens: each position holds the sentinel or
\* an ordinary id, its own (the code compares ids with the sentinel only).
TextIds(t) == [1..t -> {0, 1}]
IdsOf(f) == [i \in 1..Len(f) |-> IF f[i] = 1 THEN IMAGE_TOKEN_INDEX ELSE i]
SeqOf(f, t) == [i \in 1..t |-> f[i]]

\* One sample, every text and attention mask.  In training every sample
\* carries a pixel tensor (line 154) and labels, real on every position or
\* ignored on the first (a masked prompt); in inference a sample may carry
\* None, and text_labels is None (line 282).
InitMergeSingle ==
    \E t \in 1..MaxText, tr \in BOOLEAN, n \in 1..MaxVisualTokens,
       max_length \in 1..MaxLength :
    \E f \in TextIds(t), m \in [1..t -> BOOLEAN], prompt \in BOOLEAN,
       k \in 0..MaxImages :
        /\ tr => k > 0
        /\ ~tr => ~prompt
        /\ StartMerge(tr, <<IdsOf(SeqOf(f, t))>>, <<SeqOf(m, t)>>,
                      IF tr THEN <<[i \in 1..t |-> IF prompt /\ i = 1
                                                   THEN IGNORE_INDEX ELSE i]>>
                      ELSE None,
                      <<IF k > 0 THEN PixelTensor(k) ELSE None>>, n, max_length)

\* The pixel tensor a well-formed sample of the given ids carries: one
\* image per sentinel; a text-only sample carries one zero image in
\* training and None in inference.
PixelsFor(ids, tr) ==
    LET k == Len(ImageTokenPositions(ids))
    IN  IF k > 0 THEN PixelTensor(k) ELSE IF tr THEN PixelTensor(1) ELSE None

\* Several well-formed samples of one text length, each right-padded by at
\* most one position.
InitMergeBatch ==
    \E t \in 1..MaxBatchText, tr \in BOOLEAN, n \in {MaxVisualTokens},
       max_length \in 1..MaxLength, bs \in 2..MaxBatch :
    \E fs \in [1..bs -> TextIds(t)], ps \in [1..bs -> BOOLEAN] :
        LET ids == [b \in 1..bs |-> IdsOf(SeqOf(fs[b], t))]
        IN  StartMerge(tr, ids,
                       [b \in 1..bs |-> [i \in 1..t |-> ~(ps[b] /\ i = t)]],
                       IF tr THEN [b \in 1..bs |-> [i \in 1..t |-> i]] ELSE None,
                       [b \in 1..bs |-> PixelsFor(ids[b], tr)],
                       n, max_length)

InitMerge == InitMergeSingle \/ InitMergeBatch

\* Lines 153-182: the visual embeddings and labels of every sample, and in
\* inference the all-ignore text labels.
EmbedVisual ==
    /\ pc = "merge_multimodal"
    /\ LET bs == Len(text_input_ids)
           num_images == [b \in 1..bs |-> NumImages(sample_pixel_values[b])]
           embeds == [b \in 1..bs |->
                         VisualEmbed(b, num_images[b], visual_tokens_len)]
       IN  IF training \/ AnyImage(sample_pixel_values)
           THEN /\ visual_embeds' = embeds
                /\ visual_labels' = [b \in 1..bs |-> VisualLabel(embeds[b])]
           ELSE /\ visual_embeds' = [b \in 1..bs |-> None]
                /\ visual_labels' = [b \in 1..bs |-> None]
    /\ text_labels' =
           IF training THEN text_labels
           ELSE [b \in 1..Len(text_input_ids) |->
                    [i \in 1..Len(text_input_ids[b]) |-> IGNORE_INDEX]]
    /\ pc' = "merge_loop"
    /\ UNCHANGED <<call, tilingVars, placeholderVars, callVars, mergeInputs, input_embeds,
                   attention_masks, labels, batch_input_embeds,
                   batch_attention_mask, batch_labels>>

\* Lines 187-229: one iteration of the loop over the samples.  Indexing
\* visual_embed past its last image raises IndexError, and indexing the
\* None of line 178 (inference, no image in the whole batch) TypeError.
MergeSample ==
    /\ pc = "merge_loop"
    /\ Len(input_embeds) < Len(text_input_ids)
    /\ LET b == Len(input_embeds) + 1
           text_input_id == text_input_ids[b]
           text_embed == Wte(MaskedFill(text_input_id))
           image_token_positions == ImageTokenPositions(text_input_id)
           visual_embed == visual_embeds[b]
           visual_label == visual_labels[b]
       IN  IF Len(image_token_positions) > 0
           THEN IF Len(image_token_positions) > Len(visual_embed)
                THEN /\ pc' = IF training \/ AnyImage(sample_pixel_values)
                              THEN "IndexError" ELSE "TypeError"
                     /\ UNCHANGED <<input_embeds, attention_masks, labels>>
                ELSE /\ input_embeds' = Append(input_embeds,
                            MergeParts(text_embed, visual_embed,
                                       image_token_positions, 1, 0))
                     /\ attention_masks' = Append(attention_masks,
                            MergeParts(text_attention_masks[b],
                                       [g \in 1..Len(visual_label) |->
                                           OnesLike(visual_label[g])],
                                       image_token_positions, 1, 0))
                     /\ labels' = Append(labels,
                            MergeParts(text_labels[b], visual_label,
                                       image_token_positions, 1, 0))
                     /\ pc' = pc
           ELSE /\ input_embeds' = Append(input_embeds,
                       IF training THEN AddScalar(text_embed, ZeroSum(visual_embed))
                       ELSE text_embed)
                /\ attention_masks' = Append(attention_masks, text_attention_masks[b])
                /\ labels' = Append(labels, text_labels[b])
                /\ pc' = pc
    /\ UNCHANGED <<call, tilingVars, placeholderVars, callVars, mergeInputs, text_labels,
                   visual_embeds, visual_labels, batch_input_embeds,
                   batch_attention_mask, batch_labels>>

\* Lines 231-239: the batch is padded, truncated and returned.
PadAndTruncate ==
    /\ pc = "merge_loop"
    /\ Len(input_embeds) = Len(text_input_ids)
    /\ batch_input_embeds' =
           Truncate(PadSequence(input_embeds, ZeroVector), multimodal_max_length)
    /\ batch_attention_mask' =
           Truncate(PadSequence(attention_masks, FALSE), multimodal_max_length)
    /\ batch_labels' =
           Truncate(PadSequence(labels, IGNORE_INDEX), multimodal_max_length)
    /\ pc' = "returned"
    /\ UNCHANGED <<call, tilingVars, placeholderVars, callVars, mergeInputs, text_labels,
                   visual_embeds, visual_labels, input_embeds, attention_masks,
                   labels>>

NextMerge == EmbedVisual \/ MergeSample \/ PadAndTruncate

SpecMerge == InitMerge /\ [][NextMerge]_vars

----------------------------------------------------------------------------
(* OvisProcessor.__call__: values and helpers.                             *)

\* OvisProcessorKwargs._defaults, images_kwargs.
DefaultMaxPartition == 9
DefaultCoveringThreshold == <<9, 10>>

\* A dict is a function of its keys.
EmptyDict == [k \in {} |-> None]
HasKey(d, key) == key \in DOMAIN d

\* Lines 303-309 for every candidate: all_grids, and good_grids.
EvalGrids(size, side, n) ==
    LET c == CandidateGrids(n)
    IN  [k \in 1..Len(c) |->
            <<c[k], CoveringRatio(Partition(size, c[k]), side, size)>>]

GoodGrids(all, t) == SelectSeq(all, LAMBDA e : RatioAbove(e[2], t))

\* Lines 227-234: the tokens of the atoms from the k-th on, row by row.
RECURSIVE PlaceholderBody(_, _)
PlaceholderBody(k, g) ==
    IF k >= g[1] * g[2] THEN <<>>
    ELSE AtomTokens(k \div g[2], k % g[2], g) \o PlaceholderBody(k + 1, g)

\* construct_image_placeholders(grid)
ConstructImagePlaceholders(g) ==
    PlaceholderHead
    \o (IF g[1] * g[2] > 1 THEN PlaceholderBody(0, g) ELSE <<>>)
    \o <<TokenValue("image_end")>>

\* Line 151: the id of the sentinel token.
ImageTokenId == TokenValue("image_token")

\* The ids of the ordinary tokens of a text, one per position.
Words == <<"a", "b", "c", "d">>

\* Lines 164-174: the ids of one sample, every sentinel replaced by
\* placeholder_ids, and its attention mask.
RECURSIVE ReplacedIds(_, _)
ReplacedIds(ids_list, placeholder_ids) ==
    IF ids_list = <<>> THEN <<>>
    ELSE (IF Head(ids_list) = ImageTokenId THEN placeholder_ids
          ELSE <<Head(ids_list)>>)
         \o ReplacedIds(Tail(ids_list), placeholder_ids)

RECURSIVE ReplacedAttn(_, _, _)
ReplacedAttn(ids_list, attn_list, placeholder_ids) ==
    IF ids_list = <<>> THEN <<>>
    ELSE (IF Head(ids_list) = ImageTokenId
          THEN [j \in 1..Len(placeholder_ids) |-> 1]
          ELSE <<Head(attn_list)>>)
         \o ReplacedAttn(Tail(ids_list), Tail(attn_list), placeholder_ids)

\* image_token_id in ids_tensor
Contains(ids, tok) == \E i \in 1..Len(ids) : ids[i] = tok

\* torch.stack accepts tensors of one size only.
SameSizes(tensors) ==
    \A a, b \in 1..Len(tensors) : Len(tensors[a]) = Len(tensors[b])

----------------------------------------------------------------------------
(* OvisProcessor.__call__ as a state machine.                              *)

\* The values of the argument images: None, one image, a list of images.
ImageInputs ==
    {[kind |-> "None", items |-> <<>>]}
    \cup {[kind |-> "image", items |-> <<i>>] : i \in ImageSizes}
    \cup UNION {{[kind |-> "list", items |-> [k \in 1..n |-> f[k]]] :
                    f \in [1..n -> ImageSizes]} : n \in 0..MaxCallImages}

\* The values of the argument text: None, one string, a list of n strings.
TextInputs ==
    {[kind |-> "None", n |-> 0], [kind |-> "str", n |-> 1]}
    \cup {[kind |-> "list", n |-> n] : n \in 0..MaxCallTexts}

InitCall ==
    /\ call = "__call__"
    /\ pc = "__call__"
    /\ images \in ImageInputs
    /\ text \in TextInputs
    /\ tokenized_batched_text = None
    /\ image_features = EmptyDict
    /\ processed_images = <<>>
    /\ image_placeholders_list = <<>>
    /\ grids = <<>>
    /\ idx = 0
    /\ replaced_ids_list = <<>>
    /\ replaced_attn_mask_list = <<>>
    /\ output = None
    /\ IdleTiling
    /\ IdlePlaceholder
    /\ IdleMerge

\* Lines 129-135: one iteration of the loop over the images, with the call
\* of preprocess_image (lines 318-333) and of _get_best_grid in it. The
\* tile size is square and no covering ratio exceeds 1 here, so neither
\* line 324 nor line 306 raises.
ProcessImage ==
    /\ pc = "__call__"
    /\ images.kind # "None"
    /\ Len(processed_images) < Len(images.items)
    /\ LET image == images.items[Len(processed_images) + 1]
           side == CallSides[1]
       IN  \E all \in {EvalGrids(image, side, DefaultMaxPartition)} :
           \E good \in {GoodGrids(all, DefaultCoveringThreshold)} :
           \E best \in {BestGrid(good, all)} :
           \E cs \in {Crops(image, Partition(image, best))} :
               /\ processed_images' =
                      Append(processed_images,
                             [k \in 1..Len(cs) |-> Preprocess(cs[k], side)])
               /\ image_placeholders_list' =
                      Append(image_placeholders_list,
                             ConstructImagePlaceholders(best))
               /\ grids' = Append(grids, best)
    /\ UNCHANGED <<call, pc, tilingVars, placeholderVars, mergeVars, callInputs,
                   tokenized_batched_text, image_features, idx,
                   replaced_ids_list, replaced_attn_mask_list, output>>

\* Lines 137-142 and 210-211: the images are done; without text the image
\* features are returned as they are.
FinishImages ==
    /\ pc = "__call__"
    /\ images.kind # "None" => Len(processed_images) = Len(images.items)
    /\ LET features == IF images.kind # "None" /\ processed_images # <<>>
                       THEN [image_placeholders |-> image_placeholders_list]
                       ELSE EmptyDict
       IN  /\ image_features' = features
           /\ IF text.kind = "None"
              THEN /\ output' = features
                   /\ pc' = "returned"
              ELSE /\ output' = output
                   /\ pc' = "tokenize"
    /\ UNCHANGED <<call, tilingVars, placeholderVars, mergeVars, callInputs,
                   tokenized_batched_text, processed_images,
                   image_placeholders_list, grids, idx, replaced_ids_list,
                   replaced_attn_mask_list>>

\* Lines 144-154: the tokenizer returns, for each text, its ids and its
\* attention mask, as tensors of one length: at every position the sentinel
\* or an ordinary token, and a mask of ones, the last text possibly padded
\* by one position.
Tokenize ==
    /\ pc = "tokenize"
    /\ \E len \in 1..MaxCallText, padded \in BOOLEAN :
       \E f \in [1..text.n -> [1..len -> BOOLEAN]] :
           tokenized_batched_text' =
               [input_ids |->
                    [b \in 1..text.n |->
                        [i \in 1..len |-> IF f[b][i] THEN ImageTokenId
                                          ELSE Words[i]]],
                attention_mask |->
                    [b \in 1..text.n |->
                        [i \in 1..len |->
                            IF padded /\ b = text.n /\ i = len THEN 0 ELSE 1]]]
    /\ idx' = 0
    /\ replaced_ids_list' = <<>>
    /\ replaced_attn_mask_list' = <<>>
    /\ pc' = "replace"
    /\ UNCHANGED <<call, tilingVars, placeholderVars, mergeVars, callInputs,
                   image_features, processed_images, image_placeholders_list,
                   grids, output>>

\* Lines 155-185: one iteration of the loop over the samples.
ReplaceSample ==
    /\ pc = "replace"
    /\ Len(replaced_ids_list) < Len(tokenized_batched_text.input_ids)
    /\ LET b == Len(replaced_ids_list) + 1
           ids_tensor == tokenized_batched_text.input_ids[b]
           attn_mask == tokenized_batched_text.attention_mask[b]
       IN  IF Contains(ids_tensor, ImageTokenId)
              /\ HasKey(image_features, "image_placeholders")
           THEN IF idx < Len(image_features["image_placeholders"])
                THEN LET placeholder_ids ==
                             image_features["image_placeholders"][idx + 1]
                     IN  /\ replaced_ids_list' =
                                Append(replaced_ids_list,
                                       ReplacedIds(ids_tensor, placeholder_ids))
                         /\ replaced_attn_mask_list' =
                                Append(replaced_attn_mask_list,
                                       ReplacedAttn(ids_tensor, attn_mask,
                                                    placeholder_ids))
                         /\ idx' = idx + 1
                         /\ pc' = pc
                ELSE /\ pc' = "RuntimeError: Mismatch"
                     /\ UNCHANGED <<replaced_ids_list, replaced_attn_mask_list,
                                    idx>>
           ELSE /\ replaced_ids_list' = Append(replaced_ids_list, ids_tensor)
                /\ replaced_attn_mask_list' =
                       Append(replaced_attn_mask_list, attn_mask)
                /\ idx' = idx
                /\ pc' = pc
    /\ UNCHANGED <<call, tilingVars, placeholderVars, mergeVars, callInputs,
                   tokenized_batched_text, image_features, processed_images,
                   image_placeholders_list, grids, output>>

\* Lines 187-207: the samples are stacked (torch.stack raises when their
\* lengths differ) and the output is built.
StackAndReturn ==
    /\ pc = "replace"
    /\ Len(replaced_ids_list) = Len(tokenized_batched_text.input_ids)
    /\ IF SameSizes(replaced_ids_list)
       THEN /\ output' =
                   [input_ids |-> replaced_ids_list,
                    attention_mask |-> replaced_attn_mask_list]
                   @@ (IF image_features # EmptyDict
                       THEN [pixel_values |-> processed_images, grids |-> grids]
                       ELSE EmptyDict)
            /\ pc' = "returned"
       ELSE /\ output' = output
            /\ pc' = "RuntimeError: stack"
    /\ UNCHANGED <<call, tilingVars, placeholderVars, mergeVars, callInputs,
                   tokenized_batched_text, image_features, processed_images,
                   image_placeholders_list, grids, idx, replaced_ids_list,
                   replaced_attn_mask_list>>

NextCall ==
    \/ ProcessImage
    \/ FinishImages
    \/ Tokenize
    \/ ReplaceSample
    \/ StackAndReturn

SpecCall == InitCall /\ [][NextCall]_vars

----------------------------------------------------------------------------
(* Properties of the tiling planner.                                       *)

\* The grid _get_best_grid returned, once it has returned.
GridChosen == call = "preprocess_image" /\ grid # None

\* C1: the grid returned by _get_best_grid has rows >= 1, cols >= 1 and
\* rows * cols <= max_partition, from the good grids or from the fallback.
C1_GridWithinBudget ==
    GridChosen =>
        /\ grid[1] >= 1
        /\ grid[2] >= 1
        /\ grid[1] * grid[2] <= max_partition

\* A grid of several tiles that uses the whole budget, picked by the
\* fallback over all grids.
C1_Witness ==
    /\ GridChosen
    /\ Len(good_grids) = 0
    /\ GridSize(grid) > 1
    /\ GridSize(grid) = max_partition

\* The grid the current value of `partition` was computed for.
PartitionGrid ==
    IF pc \in {"_get_best_grid", "crop", "AssertionError"} THEN cand ELSE grid

RectArea(p) == (p[3] - p[1]) * (p[4] - p[2])

InRect(x, y, p) == p[1] <= x /\ x < p[3] /\ p[2] <= y /\ y < p[4]

\* C2: the rectangles of _partition tile the image exactly: rows * cols
\* rectangles, every pixel in exactly one of them (so no two overlap), the
\* areas summing to w * h, and every band of the integer-division size but
\* the last column and the last row, which take the remainder.
C2_PartitionTilesImage ==
    (call = "preprocess_image" /\ partition # <<>>) =>
        LET g == PartitionGrid
            w == img[1]
            h == img[2]
        IN  /\ Len(partition) = g[1] * g[2]
            /\ \A x \in 0..(w - 1), y \in 0..(h - 1) :
                   Cardinality({k \in 1..Len(partition) : InRect(x, y, partition[k])}) = 1
            /\ \A k \in 1..Len(partition) :
                   /\ 0 <= partition[k][1] /\ partition[k][1] <= partition[k][3]
                   /\ partition[k][3] <= w
                   /\ 0 <= partition[k][2] /\ partition[k][2] <= partition[k][4]
                   /\ partition[k][4] <= h
            /\ SumInts([k \in 1..Len(partition) |-> RectArea(partition[k])]) = w * h
            /\ \A row \in 0..(g[1] - 1), col \in 0..(g[2] - 1) :
                   LET p == partition[row * g[2] + col + 1]
                   IN  /\ p[3] - p[1] = IF col < g[2] - 1 THEN w \div g[2]
                                        ELSE w - (g[2] - 1) * (w \div g[2])
                       /\ p[4] - p[2] = IF row < g[1] - 1 THEN h \div g[1]
                                        ELSE h - (g[1] - 1) * (h \div g[1])

\* A partition whose last column and last row take a remainder, and one of
\* whose leading bands is empty (more columns than pixels of width).
C2_Witness ==
    /\ call = "preprocess_image"
    /\ partition # <<>>
    /\ PartitionGrid = <<2, 2>>
    /\ img = <<3, 3>>

C2_WitnessEmptyBand ==
    /\ call = "preprocess_image"
    /\ partition # <<>>
    /\ PartitionGrid[2] > img[1]
    /\ img[1] > 1

\* The entries of all_grids whose covering ratio is above the threshold.
GoodEntries ==
    {k \in 1..Len(all_grids) : RatioAbove(all_grids[k][2], covering_threshold)}

\* The entries the two-branch rule allows as the winner.
RuleWinners ==
    IF GoodEntries # {}
    THEN {e \in GoodEntries :
            \A k \in GoodEntries :
                /\ GridSize(all_grids[e][1]) <= GridSize(all_grids[k][1])
                /\ GridSize(all_grids[k][1]) = GridSize(all_grids[e][1])
                       => FloatLeq(all_grids[k][2], all_grids[e][2])}
    ELSE {e \in 1..Len(all_grids) :
            \A k \in 1..Len(all_grids) :
                /\ FloatLeq(all_grids[k][2], all_grids[e][2])
                /\ all_grids[k][2] = all_grids[e][2]
                       => GridSize(all_grids[e][1]) <= GridSize(all_grids[k][1])}

InScenario ==
    /\ img = Scenario.img
    /\ sides = <<Scenario.side, Scenario.side>>
    /\ max_partition = Scenario.max_partition
    /\ covering_threshold = Scenario.threshold

\* C3: the grid returned follows the two-branch rule: with a good grid,
\* a good grid of the smallest rows * cols and, among those, of the highest
\* covering ratio; with none, a grid of the highest covering ratio and,
\* among those, of the smallest rows * cols.  For 800x400, S = 384,
\* max_partition = 9, threshold 0.9 the rule has one winner, (1, 2), and it
\* is returned.
C3_TwoBranchRule ==
    GridChosen =>
        /\ Len(all_grids) = Len(candidate_grids)
        /\ \E e \in RuleWinners : all_grids[e][1] = grid
        /\ InScenario =>
               /\ Cardinality(RuleWinners) = 1
               /\ grid = <<1, 2>>

C3_Witness ==
    /\ GridChosen
    /\ InScenario
    /\ GoodEntries # {}
    /\ grid = <<1, 2>>

C3_WitnessFallback ==
    /\ GridChosen
    /\ GoodEntries = {}
    /\ GridSize(grid) > 1

\* _preprocess has returned the tile of the crop img.
Preprocessed == call = "_preprocess" /\ pc = "returned"

\* C16: for a crop of w x h and a tile side S, the resize asked for has the
\* longer side S and the shorter side floor(short * S / long); the resized
\* content is written into the S x S zero canvas at the offset
\* (S - short_side) // 2 along the shorter axis, inside the canvas, with a
\* leading padding at most the trailing padding and at most 1 apart from
\* it; a square crop gets the offset 0 and the tile is always S x S.
C16_ResizeAndCenter ==
    Preprocessed =>
        LET t == pixel_values[1]
            w == img[1]
            h == img[2]
            S == sides[1]
            short_side == (Min(w, h) * S) \div Max(w, h)
            offset == (S - short_side) \div 2
            trailing == S - offset - short_side
        IN  /\ t.new_size = IF w >= h THEN <<S, short_side>> ELSE <<short_side, S>>
            /\ t.paste = IF w = h THEN <<0, 0, S, S>>
                         ELSE IF w > h THEN <<0, offset, S, offset + short_side>>
                         ELSE <<offset, 0, offset + short_side, S>>
            /\ 0 <= offset
            /\ offset + short_side <= S
            /\ offset <= trailing
            /\ trailing <= offset + 1
            /\ w = h => offset = 0
            /\ t.shape = <<S, S>>

\* C15: for every image, tile side and candidate grid within the budget,
\* grids with empty leading bands included, the covering ratio the code
\* computes is at most 1: the assertion of line 306 never fails, and every
\* candidate is evaluated.
C15_CoveringRatioAtMostOne ==
    call = "preprocess_image" =>
        /\ pc # "AssertionError"
        /\ cand # None =>
               /\ Len(all_grids) >= 1
               /\ all_grids[Len(all_grids)][1] = cand
               /\ RatioAtMostOne(all_grids[Len(all_grids)][2])
        /\ GridChosen => Len(all_grids) = Len(candidate_grids)

\* A grid of more rows than the image has pixel rows has passed the
\* assertion, with a rectangle longer than the tile side scaled down.
C15_Witness ==
    /\ call = "preprocess_image"
    /\ pc = "_get_best_grid"
    /\ cand # None
    /\ cand[1] > img[2]
    /\ \E k \in 1..Len(partition) :
           /\ partition[k][4] = partition[k][2]
    /\ \E k \in 1..Len(partition) :
           /\ partition[k][4] > partition[k][2]
           /\ partition[k][3] - partition[k][1] > sides[1]
    /\ all_grids[Len(all_grids)][1] = cand

\* _get_best_grid has just returned.
GridReturned == call = "preprocess_image" /\ pc = "crop"

\* C17: when several candidate grids tie on rows * cols and on the covering
\* ratio at the head of the sort, in the good-grid branch or in the
\* fallback, the grid returned is the one enumerated first (all_grids keeps
\* the order of the loops of lines 295-299, rows ascending, then columns
\* ascending), which has fewer rows than every grid it ties with.
C17_TieByEnumerationOrder ==
    GridReturned =>
        LET winners == RuleWinners
            first == CHOOSE e \in winners : \A k \in winners : e <= k
        IN  /\ winners # {}
            /\ grid = all_grids[first][1]
            /\ \A e \in winners : e # first => grid[1] < all_grids[e][1][1]

\* Among the good grids of a square image, (2, 3) and (3, 2) tie on both
\* keys and nothing beats them: (2, 3) is returned.
C17_Witness ==
    /\ GridReturned
    /\ img[1] = img[2]
    /\ GoodEntries # {}
    /\ Cardinality(RuleWinners) >= 2
    /\ grid = <<2, 3>>
    /\ \E e \in RuleWinners : all_grids[e][1] = <<3, 2>>

\* The same tie in the fallback over all grids.
C17_WitnessFallback ==
    /\ GridReturned
    /\ GoodEntries = {}
    /\ Cardinality(RuleWinners) >= 2
    /\ grid = <<2, 3>>
    /\ \E e \in RuleWinners : all_grids[e][1] = <<3, 2>>

----------------------------------------------------------------------------
(* Properties of the placeholder builder.                                  *)

\* The token at 0-based offset k of the body of a grid of c columns: a row
\* is c atoms with a column separator between neighbours, and a row
\* separator follows every row but the last.
BodyToken(k, c) ==
    LET o == k % (2 * c)
    IN  IF o = 2 * c - 1 THEN "image_row_sep"
        ELSE IF o % 2 = 1 THEN "image_col_sep"
        ELSE "image_atom"

ExpectedPlaceholders(g) ==
    <<"image_start", "image_atom", "image_prefix">>
    \o (IF g[1] * g[2] > 1
        THEN [k \in 1..(2 * g[1] * g[2] - 1) |-> BodyToken(k - 1, g[2])]
        ELSE <<>>)
    \o <<"image_end">>

CountOf(s, tok) == Cardinality({k \in 1..Len(s) : s[k] = tok})

\* C4: construct_image_placeholders returns START, ATOM, PREFIX, then (for
\* r * c > 1 only) r rows of c atoms with a COL_SEP between columns and a
\* ROW_SEP between rows, then END; its length is
\* 4 + r*c + r*(c-1) + (r-1) for r * c > 1 and 4 for (1, 1).
C4_PlaceholderLayout ==
    (call = "construct_image_placeholders" /\ pc = "returned") =>
        LET r == grid[1]
            c == grid[2]
        IN  /\ image_placeholders = ExpectedPlaceholders(grid)
            /\ Len(image_placeholders) =
                   IF r * c > 1 THEN 4 + r * c + r * (c - 1) + (r - 1) ELSE 4
            /\ r * c > 1 =>
                   /\ CountOf(image_placeholders, "image_atom") = 1 + r * c
                   /\ CountOf(image_placeholders, "image_col_sep") = r * (c - 1)
                   /\ CountOf(image_placeholders, "image_row_sep") = r - 1
            /\ grid = <<1, 1>> =>
                   image_placeholders =
                       <<"image_start", "image_atom", "image_prefix", "image_end">>
            /\ grid = <<2, 2>> => Len(image_placeholders) = 11
            /\ grid = <<1, 3>> => Len(image_placeholders) = 9

C4_Witness ==
    /\ call = "construct_image_placeholders"
    /\ pc = "returned"
    /\ grid = <<2, 2>>
    /\ Len(image_placeholders) = 11

----------------------------------------------------------------------------
(* Properties of preprocess_image.                                         *)

\* C10: preprocess_image returns rows * cols + 1 tiles for a grid of several
\* tiles, the whole image first and then the crops row by row, and one tile
\* for grid (1, 1); the grid it returns is the one the crops were cut by
\* and the placeholder sequence was built from.
C10_TileStack ==
    (call = "preprocess_image" /\ pc = "returned") =>
        LET r == grid[1]
            c == grid[2]
            w == img[1]
            h == img[2]
        IN  /\ IF r * c > 1
               THEN /\ Len(pixel_values) = r * c + 1
                    /\ pixel_values[1].src = [kind |-> "image", box |-> <<0, 0, w, h>>]
                    /\ \A row \in 0..(r - 1), col \in 0..(c - 1) :
                           LET t == pixel_values[1 + row * c + col + 1].src
                           IN  /\ t.kind = "crop"
                               /\ t.box[1] = col * (w \div c)
                               /\ t.box[2] = row * (h \div r)
                               /\ t.box[3] = IF col = c - 1 THEN w
                                             ELSE (col + 1) * (w \div c)
                               /\ t.box[4] = IF row = r - 1 THEN h
                                             ELSE (row + 1) * (h \div r)
               ELSE /\ Len(pixel_values) = 1
                    /\ pixel_values[1].src = [kind |-> "crop", box |-> <<0, 0, w, h>>]
            /\ \A k \in 1..Len(pixel_values) : pixel_values[k].shape = <<sides[1], sides[1]>>
            /\ image_placeholders = ExpectedPlaceholders(grid)
            /\ \E e \in 1..Len(all_grids) : all_grids[e][1] = grid

C10_Witness ==
    /\ call = "preprocess_image"
    /\ pc = "returned"
    /\ grid = <<2, 2>>
    /\ Len(pixel_values) = 5

C10_WitnessSingle ==
    /\ call = "preprocess_image"
    /\ pc = "returned"
    /\ grid = <<1, 1>>
    /\ Len(pixel_values) = 1

----------------------------------------------------------------------------
(* Properties of the sequence composer.                                    *)

\* The samples merge_multimodal has merged so far.
Merged == IF call = "merge_multimodal" THEN 1..Len(input_embeds) ELSE {}

MergeReturned == call = "merge_multimodal" /\ pc = "returned"

SentinelCount(ids) ==
    Cardinality({i \in 1..Len(ids) : ids[i] = IMAGE_TOKEN_INDEX})

\* Where each position of the merged sample comes from, walking the text
\* position by position: <<"text", i, 0>> for the text position i, and
\* <<"visual", g, j>> for the j-th vector of the g-th visual group, the group
\* standing at the g-th sentinel.
RECURSIVE OriginsFrom(_, _, _, _)
OriginsFrom(ids, groups, i, g) ==
    IF i > Len(ids) THEN <<>>
    ELSE IF ids[i] = IMAGE_TOKEN_INDEX
    THEN [j \in 1..Len(groups[g]) |-> <<"visual", g, j>>]
         \o OriginsFrom(ids, groups, i + 1, g + 1)
    ELSE << <<"text", i, 0>> >> \o OriginsFrom(ids, groups, i + 1, g)

Origins(b) == OriginsFrom(text_input_ids[b], visual_embeds[b], 1, 1)

\* The origin of position p of row b of the batch: past the merged sample
\* it is padding.
OriginAt(b, p) ==
    IF p <= Len(Origins(b)) THEN Origins(b)[p] ELSE <<"pad", 0, 0>>

\* C5: for every sample whose number of sentinels equals the number of
\* visual groups supplied for it, the merged embedding sequence, attention
\* mask and label sequence have one length, text_length - sentinel_count +
\* the sum of the lengths of the visual groups, wherever the sentinels stand.
C5_MergedLength ==
    \A b \in Merged :
        LET ids == text_input_ids[b]
            groups == visual_embeds[b]
        IN  SentinelCount(ids) = NumImages(sample_pixel_values[b]) =>
                /\ Len(input_embeds[b]) = Len(attention_masks[b])
                /\ Len(input_embeds[b]) = Len(labels[b])
                /\ Len(input_embeds[b]) =
                       Len(ids) - SentinelCount(ids)
                       + SumInts([g \in 1..Len(groups) |-> Len(groups[g])])

\* A merged sample with a sentinel at the first position, one at the last
\* position and two adjacent sentinels, and one group per sentinel.
C5_Witness ==
    \E b \in Merged :
        LET ids == text_input_ids[b]
        IN  /\ SentinelCount(ids) = NumImages(sample_pixel_values[b])
            /\ ids[1] = IMAGE_TOKEN_INDEX
            /\ ids[Len(ids)] = IMAGE_TOKEN_INDEX
            /\ \E i \in 1..(Len(ids) - 1) :
                   ids[i] = IMAGE_TOKEN_INDEX /\ ids[i + 1] = IMAGE_TOKEN_INDEX
            /\ Len(input_embeds[b]) = 2 * visual_tokens_len

\* A sample of text only, merged in inference with no pixel tensor.
C5_WitnessTextOnly ==
    \E b \in Merged :
        /\ ~training
        /\ SentinelCount(text_input_ids[b]) = 0
        /\ sample_pixel_values[b] = None
        /\ Len(input_embeds[b]) = Len(text_input_ids[b])

\* C13: a sample with no sentinel is merged into its text triple, element
\* for element: the text embeddings, the text attention mask and the text
\* labels, nothing inserted or removed.  In training, where the sample
\* carries a visual payload all the same, the term added to the embeddings
\* is zero and the payload changes neither mask nor labels nor length.
C13_ZeroSentinelUnchanged ==
    \A b \in Merged :
        LET ids == text_input_ids[b]
        IN  SentinelCount(ids) = 0 =>
                /\ input_embeds[b] = [i \in 1..Len(ids) |-> <<"wte", ids[i]>>]
                /\ attention_masks[b] = text_attention_masks[b]
                /\ labels[b] = text_labels[b]

\* A text-only training sample of several tokens, merged with a visual
\* payload of two images, a real label and a false mask position.
C13_Witness ==
    \E b \in Merged :
        /\ training
        /\ SentinelCount(text_input_ids[b]) = 0
        /\ Len(text_input_ids[b]) >= 2
        /\ NumImages(sample_pixel_values[b]) = 2
        /\ Len(visual_embeds[b]) = 2
        /\ \E i \in 1..Len(labels[b]) : labels[b][i] # IGNORE_INDEX
        /\ \E i \in 1..Len(attention_masks[b]) : ~attention_masks[b][i]

\* C6: for a sample with at least one sentinel, the merged sequences are the
\* in-order concatenation of the text spans between the sentinels and of the
\* visual groups, the i-th group standing where the i-th sentinel stood:
\* every other text element appears once, unchanged and in order, and the
\* embedding, mask and label of a sentinel position do not appear.
C6_InOrderConcatenation ==
    \A b \in Merged :
        LET ids == text_input_ids[b]
            o == Origins(b)
        IN  SentinelCount(ids) >= 1 =>
                /\ input_embeds[b] =
                       [p \in 1..Len(o) |->
                           IF o[p][1] = "text" THEN <<"wte", ids[o[p][2]]>>
                           ELSE visual_embeds[b][o[p][2]][o[p][3]]]
                /\ attention_masks[b] =
                       [p \in 1..Len(o) |->
                           IF o[p][1] = "text" THEN text_attention_masks[b][o[p][2]]
                           ELSE TRUE]
                /\ labels[b] =
                       [p \in 1..Len(o) |->
                           IF o[p][1] = "text" THEN text_labels[b][o[p][2]]
                           ELSE visual_labels[b][o[p][2]][o[p][3]]]
                /\ \A p \in 1..Len(input_embeds[b]) :
                       LET e == input_embeds[b][p]
                       IN  ~(e[1] = "wte" /\ e[2] = 0)
                /\ \A i \in 1..Len(ids) :
                       ids[i] # IMAGE_TOKEN_INDEX =>
                           Cardinality({p \in 1..Len(input_embeds[b]) :
                               input_embeds[b][p] = <<"wte", ids[i]>>}) = 1

\* A merged sample with two sentinels and text between them, carrying a
\* real label.
C6_Witness ==
    \E b \in Merged :
        LET ids == text_input_ids[b]
        IN  /\ training
            /\ Len(ids) = 3
            /\ ids[1] = IMAGE_TOKEN_INDEX
            /\ ids[2] # IMAGE_TOKEN_INDEX
            /\ ids[3] = IMAGE_TOKEN_INDEX
            /\ text_labels[b][2] # IGNORE_INDEX
            /\ Len(input_embeds[b]) = 2 * visual_tokens_len + 1

\* C7: in the batch returned, every label at a position that came from a
\* visual group or was added by padding is IGNORE_INDEX, in training and in
\* inference, truncated or not; only a text position carries a real label.
C7_IgnoreLabels ==
    MergeReturned =>
        \A b \in 1..Len(batch_labels) :
            \A p \in 1..Len(batch_labels[b]) :
                OriginAt(b, p)[1] # "text" => batch_labels[b][p] = IGNORE_INDEX

\* A returned training batch holding a real label on a text position, a
\* visual position and a padding position.
C7_Witness ==
    /\ MergeReturned
    /\ training
    /\ \E b \in 1..Len(batch_labels) :
           \E p \in 1..Len(batch_labels[b]) :
               OriginAt(b, p)[1] = "text" /\ batch_labels[b][p] # IGNORE_INDEX
    /\ \E b \in 1..Len(batch_labels) :
           \E p \in 1..Len(batch_labels[b]) : OriginAt(b, p)[1] = "visual"
    /\ \E b \in 1..Len(batch_labels) :
           \E p \in 1..Len(batch_labels[b]) : OriginAt(b, p)[1] = "pad"

\* A returned inference batch with visual positions, cut by the truncation.
C7_WitnessInference ==
    /\ MergeReturned
    /\ ~training
    /\ \E b \in 1..Len(batch_labels) :
           /\ Len(labels[b]) > multimodal_max_length
           /\ \E p \in 1..Len(batch_labels[b]) : OriginAt(b, p)[1] = "visual"

\* C8 as stated: in the batch returned, the attention mask is true on every
\* position that came from the text or from a visual group and false
\* exactly on the positions added by padding.
C8_MaskTrueOffPadding ==
    MergeReturned =>
        \A b \in 1..Len(batch_attention_mask) :
            \A p \in 1..Len(batch_attention_mask[b]) :
                batch_attention_mask[b][p] = (OriginAt(b, p)[1] # "pad")

\* C8, amended: in the batch returned, the attention mask is true on every
\* position that came from a visual group, false on every position added
\* by padding, and on a position that came from the text it is the value
\* the text attention mask given to merge_multimodal holds there.
C8_MaskFollowsTextMask ==
    MergeReturned =>
        \A b \in 1..Len(batch_attention_mask) :
            \A p \in 1..Len(batch_attention_mask[b]) :
                LET o == OriginAt(b, p)
                IN  batch_attention_mask[b][p] =
                        IF o[1] = "text" THEN text_attention_masks[b][o[2]]
                        ELSE o[1] = "visual"

\* A returned batch with a text position the given mask holds false on, a
\* visual position and a padding position.
C8_Witness ==
    /\ MergeReturned
    /\ \E b \in 1..Len(batch_attention_mask) :
           \E p \in 1..Len(batch_attention_mask[b]) :
               /\ OriginAt(b, p)[1] = "text"
               /\ ~batch_attention_mask[b][p]
    /\ \E b \in 1..Len(batch_attention_mask) :
           \E p \in 1..Len(batch_attention_mask[b]) : OriginAt(b, p)[1] = "visual"
    /\ \E b \in 1..Len(batch_attention_mask) :
           \E p \in 1..Len(batch_attention_mask[b]) : OriginAt(b, p)[1] = "pad"

\* The longest merged sample.
Longest ==
    CHOOSE n \in {Len(input_embeds[b]) : b \in 1..Len(input_embeds)} :
        \A b \in 1..Len(input_embeds) : Len(input_embeds[b]) <= n

\* Row b of a batch output is the merged sample, padded on the right with
\* pad and cut to n positions.
PaddedRow(row, sample, pad, n) ==
    /\ Len(row) = n
    /\ \A p \in 1..n : row[p] = IF p <= Len(sample) THEN sample[p] ELSE pad

\* Samples of the merged lengths 5, 8 and 3, batched with the given maximum.
LengthsScenario(max_length) ==
    Truncate(PadSequence(<<[p \in 1..5 |-> TRUE], [p \in 1..8 |-> TRUE],
                           [p \in 1..3 |-> TRUE]>>, FALSE), max_length)

\* C9: the three batch outputs hold, for every sample, the merged sample
\* padded on the right to the longest merged sample (zero vector, false,
\* IGNORE_INDEX) and then cut to multimodal_max_length: every row has
\* min(longest merged length, multimodal_max_length) positions and the
\* retained prefix of each sample is unchanged.  Merged lengths 5, 8 and 3
\* give rows of 8 with maximum 10 and rows of 6 with maximum 6.
C9_PadThenTruncate ==
    /\ MergeReturned =>
           LET n == Min(Longest, multimodal_max_length)
           IN  /\ Len(batch_input_embeds) = Len(text_input_ids)
               /\ Len(batch_attention_mask) = Len(text_input_ids)
               /\ Len(batch_labels) = Len(text_input_ids)
               /\ \A b \in 1..Len(text_input_ids) :
                      /\ PaddedRow(batch_input_embeds[b], input_embeds[b],
                                   ZeroVector, n)
                      /\ PaddedRow(batch_attention_mask[b], attention_masks[b],
                                   FALSE, n)
                      /\ PaddedRow(batch_labels[b], labels[b], IGNORE_INDEX, n)
    /\ MergeReturned =>
           \A b \in 1..3 :
               /\ PaddedRow(LengthsScenario(10)[b],
                            [p \in 1..(<<5, 8, 3>>[b]) |-> TRUE], FALSE, 8)
               /\ Len(LengthsScenario(6)[b]) = 6

\* A returned batch of two samples of different merged lengths, the longer
\* cut by the truncation and the shorter keeping a padding position.
C9_Witness ==
    /\ MergeReturned
    /\ \E b, c \in 1..Len(input_embeds) :
           /\ Len(input_embeds[b]) > multimodal_max_length
           /\ Len(input_embeds[c]) < multimodal_max_length
           /\ Len(batch_input_embeds[c]) = multimodal_max_length
           /\ batch_input_embeds[c][multimodal_max_length] = ZeroVector

----------------------------------------------------------------------------
(* Properties of OvisProcessor.__call__.                                   *)

\* The call has ended: it has returned, or it has raised.
CallRaised ==
    call = "__call__" /\ pc \in {"RuntimeError: Mismatch", "RuntimeError: stack"}

CallReturned == call = "__call__" /\ pc = "returned"

\* The sentinel tokens of the ids of one sample.
Sentinels(ids) == {i \in 1..Len(ids) : ids[i] = ImageTokenId}

\* The images the caller supplied: none when images is None.
ImagesSupplied == Len(images.items)

\* C11: a call whose text is one sample ends with the count-mismatch error,
\* and with no output, whenever the number of sentinel tokens of the sample
\* differs from the number of images supplied: more sentinels than images,
\* fewer sentinels than images, images and no sentinel.
C11_CountMismatchRejected ==
    (/\ CallReturned \/ CallRaised
     /\ text.kind # "None"
     /\ Len(tokenized_batched_text.input_ids) = 1
     /\ Cardinality(Sentinels(tokenized_batched_text.input_ids[1]))
            # ImagesSupplied)
    => (pc = "RuntimeError: Mismatch" /\ output = None)

\* C12: the output of a call that was given images, with or without text,
\* holds pixel_values, one tile stack per image, and grids, one grid per
\* image, both in the order of the images (the k-th stack starts with the
\* whole of the k-th image and has the tiles of the k-th grid); the output
\* of a call that was given text holds input_ids and attention_mask.
C12_OutputKeys ==
    CallReturned =>
        /\ images.kind # "None" =>
               /\ HasKey(output, "pixel_values")
               /\ HasKey(output, "grids")
               /\ Len(output["pixel_values"]) = ImagesSupplied
               /\ Len(output["grids"]) = ImagesSupplied
               /\ \A k \in 1..ImagesSupplied :
                      LET stack == output["pixel_values"][k]
                          tiles == GridSize(output["grids"][k])
                      IN  /\ output["grids"][k] = grids[k]
                          /\ stack[1].src.box =
                                 <<0, 0, images.items[k][1], images.items[k][2]>>
                          /\ Len(stack) = IF tiles > 1 THEN tiles + 1 ELSE 1
        /\ text.kind # "None" =>
               /\ HasKey(output, "input_ids")
               /\ HasKey(output, "attention_mask")

\* The sentinels of the samples before the b-th, and of all the samples.
SentinelsBefore(b) ==
    SumInts([c \in 1..(b - 1) |->
                Cardinality(Sentinels(tokenized_batched_text.input_ids[c]))])

TotalSentinels == SentinelsBefore(Len(tokenized_batched_text.input_ids) + 1)

\* The ids and the attention values of a sample whose sentinels, in order,
\* are replaced by the placeholder sequences from the k-th on, one sequence
\* for one sentinel, with the attention value 1 at the substituted positions.
RECURSIVE SubstitutedIds(_, _, _)
SubstitutedIds(ids, placeholders, k) ==
    IF ids = <<>> THEN <<>>
    ELSE IF Head(ids) = ImageTokenId
         THEN placeholders[k] \o SubstitutedIds(Tail(ids), placeholders, k + 1)
         ELSE <<Head(ids)>> \o SubstitutedIds(Tail(ids), placeholders, k)

RECURSIVE SubstitutedAttn(_, _, _, _)
SubstitutedAttn(ids, attn, placeholders, k) ==
    IF ids = <<>> THEN <<>>
    ELSE IF Head(ids) = ImageTokenId
         THEN [j \in 1..Len(placeholders[k]) |-> 1]
              \o SubstitutedAttn(Tail(ids), Tail(attn), placeholders, k + 1)
         ELSE <<Head(attn)>>
              \o SubstitutedAttn(Tail(ids), Tail(attn), placeholders, k)

\* C14: in the output of a call whose texts hold as many sentinels as images
\* were given, the i-th sentinel in order is replaced by the placeholder
\* sequence of the i-th image, verbatim, so each placeholder sequence stands
\* for exactly one sentinel; the substituted positions have the attention
\* value 1, the other tokens keep their id, their attention value and their
\* order, and no sentinel is left in the ids.
C14_SentinelSubstitution ==
    (/\ CallReturned
     /\ text.kind # "None"
     /\ TotalSentinels = ImagesSupplied)
    => \A b \in 1..Len(tokenized_batched_text.input_ids) :
           /\ output["input_ids"][b] =
                  SubstitutedIds(tokenized_batched_text.input_ids[b],
                                 image_placeholders_list, SentinelsBefore(b) + 1)
           /\ output["attention_mask"][b] =
                  SubstitutedAttn(tokenized_batched_text.input_ids[b],
                                  tokenized_batched_text.attention_mask[b],
                                  image_placeholders_list, SentinelsBefore(b) + 1)
           /\ Sentinels(output["input_ids"][b]) = {}

====
